---- MODULE Spec2Model ----
(***************************************************************************)
(* Model of torch/distributed/_tensor/sharding_prop.py: the sharding       *)
(* propagator (ShardingPropagator) that walks a trial fx graph of one      *)
(* operator, and the caching overlay (_CachingPropagator).                 *)
(*                                                                         *)
(* Python objects are records with a "type" field.  Objects the code       *)
(* mutates in place are kept where they live: the caller's operand specs   *)
(* in flat_args_sharding (a placeholder node holds a reference to its      *)
(* entry), a rule's OutputSharding in the meta of the node it was stored   *)
(* on.                                                                     *)
(***************************************************************************)
EXTENDS Integers, Sequences, FiniteSets, TLC

VARIABLES
    op_to_rules,          \* self.op_to_rules: target -> rule, NoRule if absent
    last_registered,      \* target -> rule of the latest register call for it, NoRule if none
    caching,              \* TRUE iff the engine is a _CachingPropagator
    cached_prop_results,  \* self.cached_prop_results: OpSchema -> OutputSharding
    pc,                   \* "idle" between calls, "walk" inside run_graph_prop's loop
    entry,                \* the method the current call entered through
    call_arg,             \* the arguments of the current call, as they were passed
    func_schema,          \* op_schema.func_schema of the caller's schema
    n_args,               \* number of positional entries of the caller's schema
    flat_args_sharding,   \* the caller's operand specs, flattened (live objects)
    op_graph,             \* the trial graph: sequence of nodes with their meta
    node_idx,             \* position of the loop over op_graph.graph.nodes
    placeholder_idx,      \* run_graph_prop's placeholder cursor (0-based)
    output_sharding,      \* run_graph_prop's local: result of the last call_function
    output_spec,          \* run_graph_prop's local: Unbound until an output node
    rule_calls,           \* the rule invocations made during the current call
    spec_written,         \* the current call assigned to a field of a caller's operand spec
    graphs_built,         \* trial graphs built during the current call
    outcome,              \* how the last call ended: returned value or raised error
    first_returned,       \* <<op, schema as passed>> -> first result propagate returned
    repeated,             \* propagate had returned for the current call's arguments before
    n_calls               \* number of calls made so far

vars == <<op_to_rules, last_registered, caching, cached_prop_results, pc, entry, call_arg,
          func_schema, n_args, flat_args_sharding, op_graph, node_idx,
          placeholder_idx, output_sharding, output_spec, rule_calls,
          spec_written, graphs_built, outcome, first_returned, repeated, n_calls>>

(***************************************************************************)
(* Bounds                                                                  *)
(***************************************************************************)
MaxFlat == 2      \* longest flattened operand sequence
MaxKwargs == 1    \* most keyword operands of a schema
MaxCalls == 2     \* calls of propagate / run_graph_prop in one behaviour

(***************************************************************************)
(* Values                                                                  *)
(***************************************************************************)
Null == [type |-> "None"]
Unbound == [type |-> "unbound"]
PlainValue == [type |-> "value"]
Str(s) == [type |-> "str", value |-> s]
List(s) == [type |-> "list", items |-> s]
NodeRef(i) == [type |-> "Node", idx |-> i]
ArgRef(k) == [type |-> "ref", idx |-> k]
TensorMeta(n) == [type |-> "TensorMeta", shape |-> n]

DTensorSpec(p, tm) ==
    [type |-> "DTensorSpec", placements |-> p, tensor_meta |-> tm]

OpSchema(f, a, k) ==
    [type |-> "OpSchema", func_schema |-> f, args_schema |-> a, kwargs_schema |-> k]

\* attr_tensor_meta is the instance attribute that unwrap_spec_from_node
\* sets on whatever object a node's meta["sharding"] holds
OutputSharding(o, s, f) ==
    [type |-> "OutputSharding", output_spec |-> o, schema_suggestions |-> s,
     failed_reason |-> f, attr_tensor_meta |-> Null]

Error(kind, op, schema, reason) ==
    [type |-> "error", kind |-> kind, op |-> op, schema |-> schema, reason |-> reason]

(***************************************************************************)
(* Operand specs, schemas and the operators of the bounded universe        *)
(***************************************************************************)
Placements == {"Shard0", "Replicate"}
CallerMeta == TensorMeta(1)      \* tensor metadata of the caller's operands
TracedMeta == TensorMeta(2)      \* tensor metadata the trace gives a computed node

\* an argument of an operator: an operand spec, with tensor metadata or
\* without, or a non-tensor value that passes through
Entries ==
    {DTensorSpec(p, CallerMeta) : p \in Placements}
        \cup {DTensorSpec("Replicate", Null), PlainValue}

SeqsUpTo(S, n) == UNION {[1..k -> S] : k \in 0..n}

\* targets of call_function nodes, and operators a caller propagates
Targets == {"add", "mul"}
Operators == {"add", "addmul", "const_add"}

Schemas ==
    {OpSchema(f, fl[1], fl[2]) :
        f \in Operators,
        fl \in {x \in SeqsUpTo(Entries, MaxFlat) \X SeqsUpTo(Entries, MaxKwargs) :
                    Len(x[1]) + Len(x[2]) <= MaxFlat}}

\* tree_flatten([args_schema, kwargs_schema]): positional entries, then keyword
Flatten(schema) == schema.args_schema \o schema.kwargs_schema

(***************************************************************************)
(* Rules: pure functions from an OpSchema to an OutputSharding, or raising *)
(***************************************************************************)
NoRule == [type |-> "None"]
RuleRaises == [type |-> "raise"]

\* OpSchema.args_spec: the operand specs among the arguments
ArgsSpec(schema) ==
    SelectSeq(Flatten(schema), LAMBDA e : e.type = "DTensorSpec")

Matching(schema) ==
    \A i, j \in 1..Len(ArgsSpec(schema)) :
        ArgsSpec(schema)[i].placements = ArgsSpec(schema)[j].placements

AlignEntry(e, p) ==
    IF e.type = "DTensorSpec" THEN [e EXCEPT !.placements = p] ELSE e

\* the schema with every operand spec resharded to placement p
AlignTo(schema, p) ==
    OpSchema(schema.func_schema,
             [i \in 1..Len(schema.args_schema) |-> AlignEntry(schema.args_schema[i], p)],
             [i \in 1..Len(schema.kwargs_schema) |-> AlignEntry(schema.kwargs_schema[i], p)])

\* What a rule answers on a schema it does not support: the schema resharded
\* to the first operand's placement; when the first operand is replicated,
\* resharding to the last operand's placement is a second suggestion.
Suggestions(schema) ==
    LET specs == ArgsSpec(schema)
        first == specs[1].placements
        last == specs[Len(specs)].placements
    IN IF Len(specs) = 0 \/ Matching(schema) THEN <<schema>>
       ELSE IF first = "Replicate"
            THEN <<AlignTo(schema, first), AlignTo(schema, last)>>
            ELSE <<AlignTo(schema, first)>>

Resolved(schema) ==
    LET specs == ArgsSpec(schema)
    IN DTensorSpec(IF Len(specs) = 0 THEN "Replicate" ELSE specs[1].placements, Null)

Behave(b, schema) ==
    CASE b = "resolve" -> OutputSharding(Resolved(schema), Null, Null)
      [] b = "suggest" -> OutputSharding(Null, List(Suggestions(schema)), Null)
      [] b = "null"    -> OutputSharding(Null, Null, Null)
      [] b = "fail"    -> OutputSharding(Null, Null, Str("no rule applies"))
      [] b = "raise"   -> RuleRaises

\* a rule is what it does on a schema whose operands match and on one whose
\* operands do not
Rule(m, mm) == [type |-> "rule", onMatching |-> m, onMismatch |-> mm]
Elementwise == Rule("resolve", "suggest")
Scalar == Rule("null", "suggest")
Fragile == Rule("raise", "suggest")
Failing == Rule("fail", "fail")
Rules == {Elementwise, Scalar, Fragile, Failing}

\* sharding_prop_func(op_schema)
RuleApply(rule, schema) ==
    Behave(IF Matching(schema) THEN rule.onMatching ELSE rule.onMismatch, schema)

(***************************************************************************)
(* The trial graph                                                         *)
(***************************************************************************)
\* a torch.fx Node; tensor_meta and sharding are the keys of node.meta,
\* Null when the key is absent
Node(kind, target, args, kwargs, tm) ==
    [op |-> kind, target |-> target, args |-> args, kwargs |-> kwargs,
     tensor_meta |-> tm, sharding |-> Null]

\* how the trace refers to argument i: tensors by their placeholder node,
\* other values inline
ArgOf(flat, i) == IF flat[i].type = "DTensorSpec" THEN NodeRef(i) ELSE flat[i]

PlaceholderNodes(flat) ==
    [i \in 1..Len(flat) |->
        Node("placeholder", Null, <<>>, <<>>,
             IF flat[i].type = "DTensorSpec" THEN flat[i].tensor_meta ELSE Null)]

\* get_isolated_graphmodule(op_call, fake_args, fake_kwargs): one placeholder
\* per flattened argument, the primitive nodes op_call decomposes into, and
\* the output node
BuildGraph(op_call, schema) ==
    LET flat == Flatten(schema)
        n == Len(flat)
        a == Len(schema.args_schema)
        phs == PlaceholderNodes(flat)
        posargs == [i \in 1..a |-> ArgOf(flat, i)]
        kwargs == [i \in 1..(n - a) |-> ArgOf(flat, a + i)]
        add == Node("call_function", "add", posargs, kwargs, TracedMeta)
        out(refs) == Node("output", Null, refs, <<>>, Null)
    IN CASE op_call = "add" ->
              phs \o <<add, out(<<NodeRef(n + 1)>>)>>
         [] op_call = "addmul" ->
              phs \o <<add,
                       Node("call_function", "mul",
                            <<NodeRef(n + 1)>> \o (IF a = 0 THEN <<>> ELSE <<posargs[1]>>),
                            <<>>, TracedMeta),
                       out(<<NodeRef(n + 2)>>)>>
         [] op_call = "view" ->
              phs \o <<out(SelectSeq(posargs \o kwargs, LAMBDA r : r.type = "Node"))>>
         [] op_call = "const_add" ->
              phs \o <<Node("get_attr", Null, <<>>, <<>>, Null),
                       add, out(<<NodeRef(n + 2)>>)>>

\* _rebuild_tensor_from_dtensor's assertion holds of every operand spec
Rebuildable(schema) ==
    \A i \in 1..Len(Flatten(schema)) :
        Flatten(schema)[i].type = "DTensorSpec" => Flatten(schema)[i].tensor_meta # Null

(***************************************************************************)
(* unwrap_spec_from_node, mapped over a sequence of arguments              *)
(***************************************************************************)
RECURSIVE UnwrapAll(_, _, _, _)
\* tree_map_only(Node, unwrap_spec_from_node, items): left to right, every
\* Node replaced by the object its meta["sharding"] holds, after that
\* object's tensor_meta has been overwritten by the node's
UnwrapAll(items, g, flat, acc) ==
    IF items = <<>>
    THEN [err |-> Null, vals |-> acc, graph |-> g, flat |-> flat]
    ELSE LET it == Head(items)
         IN IF it.type # "Node"
            THEN UnwrapAll(Tail(items), g, flat, Append(acc, it))
            ELSE LET n == g[it.idx]
                 IN IF n.sharding = Null
                    THEN [err |-> Error("KeyError", Null, Null, Str("sharding")),
                          vals |-> acc, graph |-> g, flat |-> flat]
                    ELSE IF n.tensor_meta = Null
                    THEN [err |-> Error("KeyError", Null, Null, Str("tensor_meta")),
                          vals |-> acc, graph |-> g, flat |-> flat]
                    ELSE IF n.sharding.type = "ref"
                    THEN LET k == n.sharding.idx
                             flat2 == [flat EXCEPT ![k].tensor_meta = n.tensor_meta]
                         IN UnwrapAll(Tail(items), g, flat2, Append(acc, flat2[k]))
                    ELSE LET g2 == [g EXCEPT ![it.idx].sharding.attr_tensor_meta =
                                                    n.tensor_meta]
                         IN UnwrapAll(Tail(items), g2, flat,
                                      Append(acc, g2[it.idx].sharding))

\* some node among the unwrapped ones held a caller's operand spec: the only
\* operand specs that stand for a node are those of placeholders, and
\* unwrap_spec_from_node assigned to the tensor_meta of each
WritesSpec(vals) == \E j \in 1..Len(vals) : vals[j].type = "DTensorSpec"

(***************************************************************************)
(* ShardingPropagator.run_op_prop                                          *)
(***************************************************************************)
\* a lookup that falls back to a default rule where none is registered
LookupRuleWithDefault(rules, op_call) ==
    IF rules[op_call] = NoRule THEN Elementwise ELSE rules[op_call]

\* self.op_to_rules.get(op_call, None)
LookupRule(rules, op_call) == rules[op_call]

\* the test of the failure reason inverted
FailsWithoutReason(r) ==
    r.output_spec = Null /\ r.schema_suggestions = Null /\ r.failed_reason = Null

\* the three outcomes of the first invocation that need more than recording
FailsWithReason(r) ==
    r.output_spec = Null /\ r.schema_suggestions = Null /\ r.failed_reason # Null

ScalarFallback(r) ==
    r.output_spec = Null /\ r.schema_suggestions = Null /\ r.failed_reason = Null

NeedsRedistribute(r) ==
    r.output_spec = Null /\ r.schema_suggestions # Null

\* what run_op_prop did: the error it raised (Null if it returned), the graph
\* and the caller's specs as it left them, the rule invocations it made
OpPropResult(err, g, flat, calls) ==
    [err |-> err, graph |-> g, flat |-> flat, calls |-> calls]

\* one invocation of a rule, as a call recorder on the rule sees it
Invocation(schema, result, retry) ==
    [schema |-> schema, result |-> result, retry |-> retry]

\* picking the last suggestion instead of the first
LastSuggestion(r) == r.schema_suggestions.items[Len(r.schema_suggestions.items)]

\* output_sharding.schema_suggestions[0]
FirstSuggestion(r) == r.schema_suggestions.items[1]

\* the rest of run_op_prop once the first invocation returned r for op_schema
AfterFirstInvocation(rule, op_call, op_schema, r, g, flat, idx) ==
    LET stored == [g EXCEPT ![idx].sharding = r]
        once == <<Invocation(op_schema, r, FALSE)>>
        finish(r2, calls) ==
            OpPropResult(Null, [g EXCEPT ![idx].sharding = r2], flat, calls)
    IN IF FailsWithReason(r)
       THEN OpPropResult(Error("RuntimeError", op_call, op_schema, r.failed_reason),
                         stored, flat, once)
       ELSE IF ScalarFallback(r)
       THEN finish([r EXCEPT !.schema_suggestions = List(<<op_schema>>)], once)
       ELSE IF NeedsRedistribute(r)
       THEN LET suggested_input_schema == FirstSuggestion(r)
                propagation_res == RuleApply(rule, suggested_input_schema)
                calls == Append(once, Invocation(suggested_input_schema,
                                                 propagation_res, TRUE))
            IN IF propagation_res = RuleRaises
               THEN OpPropResult(Error("RuleError", Null, Null, Str("rule error")),
                                 stored, flat, calls)
               ELSE finish([r EXCEPT !.output_spec = propagation_res.output_spec], calls)
       ELSE finish([r EXCEPT !.schema_suggestions = List(<<op_schema>>)], once)

\* run_op_prop(op_node) for the node at idx; ua and uk are what the two
\* tree_map_only calls over the node's args and kwargs left behind, each
\* computed once
RunOpProp(rules, g, flat, idx) ==
    LET op_node == g[idx]
        op_call == op_node.target
        sharding_prop_func == LookupRule(rules, op_call)
        FromSchema(ua, uk) ==
            LET op_schema == OpSchema(op_call, ua.vals, uk.vals)
                first == RuleApply(sharding_prop_func, op_schema)
            IN IF sharding_prop_func = NoRule
               THEN OpPropResult(Error("NotImplementedError", op_call, Null, Null),
                                 g, flat, <<>>)
               ELSE IF ua.err # Null THEN OpPropResult(ua.err, ua.graph, ua.flat, <<>>)
               ELSE IF uk.err # Null THEN OpPropResult(uk.err, uk.graph, uk.flat, <<>>)
               ELSE IF first = RuleRaises
               THEN OpPropResult(Error("RuntimeError", op_call, op_schema, Str("rule error")),
                                 uk.graph, uk.flat, <<Invocation(op_schema, first, FALSE)>>)
               ELSE AfterFirstInvocation(sharding_prop_func, op_call, op_schema, first,
                                         uk.graph, uk.flat, idx)
    IN CHOOSE res \in
           UNION {{FromSchema(ua, uk) :
                       uk \in {UnwrapAll(op_node.kwargs, ua.graph, ua.flat, <<>>)}} :
                   ua \in {UnwrapAll(op_node.args, g, flat, <<>>)}} : TRUE

\* run_op_prop(op_node) assigned to the tensor_meta of a caller's operand
\* spec while it built the node's schema
RunOpPropWrites(rules, g, flat, idx) ==
    LET ua == UnwrapAll(g[idx].args, g, flat, <<>>)
        uk == UnwrapAll(g[idx].kwargs, ua.graph, ua.flat, <<>>)
    IN /\ LookupRule(rules, g[idx].target) # NoRule
       /\ WritesSpec(ua.vals) \/ (ua.err = Null /\ WritesSpec(uk.vals))

(***************************************************************************)
(* State machine                                                           *)
(***************************************************************************)
NoOutcome == [status |-> "none", value |-> Null]
Returned(v) == [status |-> "returned", value |-> v]
Raised(e) == [status |-> "raised", value |-> e]

\* the caller's schema object as it is now (its operand specs are live)
CallerSchema ==
    OpSchema(func_schema, SubSeq(flat_args_sharding, 1, n_args),
             SubSeq(flat_args_sharding, n_args + 1, Len(flat_args_sharding)))

\* ShardingPropagator.__init__ / _CachingPropagator.__init__
Init ==
    /\ op_to_rules = [t \in Targets |-> NoRule]
    /\ last_registered = [t \in Targets |-> NoRule]
    /\ caching \in BOOLEAN
    /\ cached_prop_results = <<>>
    /\ pc = "idle"
    /\ entry = "none"
    /\ call_arg = Null
    /\ func_schema = Null
    /\ n_args = 0
    /\ flat_args_sharding = <<>>
    /\ op_graph = <<>>
    /\ node_idx = 0
    /\ placeholder_idx = 0
    /\ output_sharding = Null
    /\ output_spec = Unbound
    /\ rule_calls = <<>>
    /\ spec_written = FALSE
    /\ graphs_built = 0
    /\ outcome = NoOutcome
    /\ first_returned = <<>>
    /\ repeated = FALSE
    /\ n_calls = 0

\* a registration that keeps the rule an operator already has
RegisterFirstWins(op_overload, rule_func) ==
    /\ pc = "idle"
    /\ n_calls = 0
    /\ op_to_rules' = IF op_to_rules[op_overload] = NoRule
                      THEN [op_to_rules EXCEPT ![op_overload] = rule_func]
                      ELSE op_to_rules
    /\ last_registered' = [last_registered EXCEPT ![op_overload] = rule_func]
    /\ UNCHANGED <<caching, cached_prop_results, pc, entry, call_arg, func_schema,
                   n_args, flat_args_sharding, op_graph, node_idx, placeholder_idx,
                   output_sharding, output_spec, rule_calls, spec_written, graphs_built, outcome,
                   first_returned, repeated, n_calls>>

\* register_sharding_prop_rule(op_overload, rule_func); the registry is
\* populated before the first propagation
Register(op_overload, rule_func) ==
    /\ pc = "idle"
    /\ n_calls = 0
    /\ op_to_rules' = [op_to_rules EXCEPT ![op_overload] = rule_func]
    /\ last_registered' = [last_registered EXCEPT ![op_overload] = rule_func]
    /\ UNCHANGED <<caching, cached_prop_results, pc, entry, call_arg, func_schema,
                   n_args, flat_args_sharding, op_graph, node_idx, placeholder_idx,
                   output_sharding, output_spec, rule_calls, spec_written, graphs_built, outcome,
                   first_returned, repeated, n_calls>>

\* the state run_graph_prop starts its loop in
EnterWalk(g, flat) ==
    /\ op_graph' = g
    /\ flat_args_sharding' = flat
    /\ node_idx' = 1
    /\ placeholder_idx' = 0
    /\ output_sharding' = Null
    /\ output_spec' = Unbound

\* a lookup by object identity: a schema built afresh is never found
CacheHitByIdentity(cache, op_schema) == FALSE

\* the lookup of _CachingPropagator.propagate
CacheHit(cache, op_schema) == op_schema \in DOMAIN cache

\* a cache keyed by the operands together with the operator given
CacheKeyOfOperator(op_call, op_schema) == [op_schema EXCEPT !.func_schema = op_call]

\* the key of cached_prop_results: op_schema, whatever op_call is
CacheKey(op_call, op_schema) == op_schema

\* propagate(op_call, op_schema), up to the start of run_graph_prop's loop:
\* the cache lookup of _CachingPropagator.propagate, then the fake arguments
\* and the trial graph of ShardingPropagator.propagate
Propagate(op_call, op_schema) ==
    /\ pc = "idle"
    /\ n_calls < MaxCalls
    /\ n_calls' = n_calls + 1
    /\ entry' = "propagate"
    /\ call_arg' = [op |-> op_call, schema |-> op_schema]
    /\ func_schema' = op_schema.func_schema
    /\ n_args' = Len(op_schema.args_schema)
    /\ rule_calls' = <<>>
    /\ spec_written' = FALSE
    /\ repeated' = (<<op_call, op_schema>> \in DOMAIN first_returned)
    /\ UNCHANGED <<op_to_rules, last_registered, caching, cached_prop_results, first_returned>>
    /\ IF caching /\ CacheHit(cached_prop_results, CacheKey(op_call, op_schema))
       THEN /\ outcome' = Returned(cached_prop_results[CacheKey(op_call, op_schema)])
            /\ graphs_built' = 0
            /\ pc' = "idle"
            /\ EnterWalk(<<>>, Flatten(op_schema))
       ELSE IF ~Rebuildable(op_schema)
       THEN /\ outcome' = Raised(Error("AssertionError", Null, Null, Null))
            /\ graphs_built' = 0
            /\ pc' = "idle"
            /\ EnterWalk(<<>>, Flatten(op_schema))
       ELSE /\ outcome' = NoOutcome
            /\ graphs_built' = 1
            /\ pc' = "walk"
            /\ EnterWalk(BuildGraph(op_call, op_schema), Flatten(op_schema))

\* run_graph_prop(op_graph, flat_args_sharding) called directly
RunGraphProp(g, flat) ==
    /\ pc = "idle"
    /\ n_calls < MaxCalls
    /\ n_calls' = n_calls + 1
    /\ entry' = "run_graph_prop"
    /\ call_arg' = Null
    /\ func_schema' = Null
    /\ n_args' = Len(flat)
    /\ rule_calls' = <<>>
    /\ spec_written' = FALSE
    /\ graphs_built' = 0
    /\ outcome' = NoOutcome
    /\ pc' = "walk"
    /\ EnterWalk(g, flat)
    /\ repeated' = FALSE
    /\ UNCHANGED <<op_to_rules, last_registered, caching, cached_prop_results, first_returned>>

\* a loop that stays on the node it has handled
StayOnNode ==
    /\ pc' = "walk"
    /\ node_idx' = node_idx
    /\ UNCHANGED <<op_to_rules, last_registered, caching, cached_prop_results, entry,
                   call_arg, func_schema, n_args, graphs_built, outcome,
                   first_returned, repeated, n_calls>>

\* an exception that is remembered under the caller's schema
RaiseAndStore(e) ==
    /\ pc' = "idle"
    /\ outcome' = Raised(e)
    /\ cached_prop_results' =
          IF caching /\ entry = "propagate"
          THEN (call_arg.schema :> e) @@ cached_prop_results
          ELSE cached_prop_results
    /\ UNCHANGED <<op_to_rules, last_registered, caching, entry, call_arg,
                   func_schema, n_args, graphs_built, first_returned, repeated,
                   n_calls>>

\* an exception leaves run_graph_prop and propagate
Raise(e) ==
    /\ pc' = "idle"
    /\ outcome' = Raised(e)
    /\ UNCHANGED <<op_to_rules, last_registered, caching, cached_prop_results, entry, call_arg,
                   func_schema, n_args, graphs_built, first_returned, repeated,
                   n_calls>>

\* for node in op_graph.graph.nodes: on to the next node
Step ==
    /\ pc' = "walk"
    /\ node_idx' = node_idx + 1
    /\ UNCHANGED <<op_to_rules, last_registered, caching, cached_prop_results, entry, call_arg,
                   func_schema, n_args, graphs_built, outcome, first_returned,
                   repeated, n_calls>>

AtNode(kind) ==
    /\ pc = "walk"
    /\ node_idx <= Len(op_graph)
    /\ op_graph[node_idx].op = kind

\* a cursor that moves only past the entries that are operand specs
AdvanceIfSpec(idx, e) == IF e.type = "DTensorSpec" THEN idx + 1 ELSE idx

\* placeholder_idx += 1, whatever the entry e at the cursor was
AdvanceCursor(idx, e) == idx + 1

\* loop body, node.op == "placeholder"
WalkPlaceholder ==
    /\ AtNode("placeholder")
    /\ IF placeholder_idx >= Len(flat_args_sharding)
       THEN /\ Raise(Error("IndexError", Null, Null, Null))
            /\ UNCHANGED <<op_graph, node_idx, placeholder_idx, flat_args_sharding,
                           output_sharding, output_spec, rule_calls, spec_written>>
       ELSE /\ Step
            /\ op_graph' =
                 IF flat_args_sharding[placeholder_idx + 1].type = "DTensorSpec"
                 THEN [op_graph EXCEPT ![node_idx].sharding = ArgRef(placeholder_idx + 1)]
                 ELSE op_graph
            /\ placeholder_idx' =
                 AdvanceCursor(placeholder_idx, flat_args_sharding[placeholder_idx + 1])
            /\ UNCHANGED <<flat_args_sharding, output_sharding, output_spec, rule_calls,
                           spec_written>>

\* keeping the result of the first computational node
RetainFirst(current, idx) == IF current = Null THEN NodeRef(idx) ELSE current

\* output_sharding = self.run_op_prop(node): the record now on node idx
\* replaces the one retained so far
Retain(current, idx) == NodeRef(idx)

\* loop body, node.op == "call_function": run_op_prop(node)
WalkCallFunction ==
    /\ AtNode("call_function")
    /\ \E r \in {RunOpProp(op_to_rules, op_graph, flat_args_sharding, node_idx)} :
          /\ op_graph' = r.graph
          /\ flat_args_sharding' = r.flat
          /\ rule_calls' = rule_calls \o r.calls
          /\ spec_written' =
                 (spec_written \/ RunOpPropWrites(op_to_rules, op_graph,
                                                  flat_args_sharding, node_idx))
          /\ IF r.err # Null
             THEN /\ Raise(r.err)
                  /\ UNCHANGED <<node_idx, placeholder_idx, output_sharding, output_spec>>
             ELSE /\ Step
                  /\ output_sharding' = Retain(output_sharding, node_idx)
                  /\ UNCHANGED <<placeholder_idx, output_spec>>

\* loop body, node.op == "output"
WalkOutput ==
    /\ AtNode("output")
    /\ \E u \in {UnwrapAll(op_graph[node_idx].args, op_graph, flat_args_sharding, <<>>)} :
          /\ op_graph' = u.graph
          /\ flat_args_sharding' = u.flat
          /\ spec_written' = (spec_written \/ WritesSpec(u.vals))
          /\ UNCHANGED <<placeholder_idx, output_sharding, rule_calls>>
          /\ IF u.err # Null
             THEN /\ Raise(u.err)
                  /\ UNCHANGED <<node_idx, output_spec>>
             ELSE /\ Step
                  /\ output_spec' = List(u.vals)

\* loop body, any other node.op
WalkOther ==
    /\ pc = "walk"
    /\ node_idx <= Len(op_graph)
    /\ op_graph[node_idx].op \notin {"placeholder", "call_function", "output"}
    /\ Raise(Error("ValueError", op_graph[node_idx].op, Null, Null))
    /\ UNCHANGED <<op_graph, node_idx, placeholder_idx, flat_args_sharding,
                   output_sharding, output_spec, rule_calls, spec_written>>

\* returning the last node's own result instead of assembling one
AssembleFromLastNode(g, spec, last) == g[last.idx].sharding

\* the OutputSharding run_graph_prop builds after its loop
AssembleResult(g, spec, last) ==
    OutputSharding(spec, g[last.idx].sharding.schema_suggestions, Null)

\* storing the result stripped of its suggestions
StoreWithoutSuggestions(cache, op_schema, res) ==
    (op_schema :> [res EXCEPT !.schema_suggestions = Null]) @@ cache

\* self.cached_prop_results[op_schema] = output_sharding
StoreResult(cache, op_schema, res) == (op_schema :> res) @@ cache

\* the return of run_graph_prop, and of the propagate that called it: the
\* caching propagator stores the result under the caller's schema
Finish ==
    /\ pc = "walk"
    /\ node_idx > Len(op_graph)
    /\ UNCHANGED <<op_graph, node_idx, placeholder_idx, flat_args_sharding,
                   output_sharding, output_spec, rule_calls, spec_written>>
    /\ IF output_spec = Unbound
       THEN /\ Raise(Error("UnboundLocalError", Null, Null, Null))
       ELSE IF output_sharding = Null
       THEN /\ Raise(Error("AttributeError", Null, Null, Null))
       ELSE LET res == AssembleResult(op_graph, output_spec, output_sharding)
                key == <<call_arg.op, call_arg.schema>>
            IN /\ pc' = "idle"
               /\ outcome' = Returned(res)
               /\ cached_prop_results' =
                    IF entry = "propagate" /\ caching
                    THEN StoreResult(cached_prop_results,
                                     CacheKey(call_arg.op, CallerSchema), res)
                    ELSE cached_prop_results
               /\ first_returned' =
                    IF entry = "propagate" /\ key \notin DOMAIN first_returned
                    THEN (key :> res) @@ first_returned
                    ELSE first_returned
               /\ UNCHANGED <<op_to_rules, last_registered, caching, entry, call_arg, func_schema,
                              n_args, graphs_built, repeated, n_calls>>

\* the graphs a direct caller of run_graph_prop holds: traces of an operator
\* on n tensors, made for operands other than the ones it passes
DirectGraphs ==
    {BuildGraph(op, OpSchema(op, [i \in 1..n |-> DTensorSpec("Replicate", TracedMeta)], <<>>)) :
        op \in {"add", "addmul", "view", "const_add"}, n \in 0..MaxFlat}

Walk ==
    \/ WalkPlaceholder
    \/ WalkCallFunction
    \/ WalkOutput
    \/ WalkOther
    \/ Finish

\* an engine whose callers go through propagate
Next ==
    \/ \E t \in Targets, r \in Rules : Register(t, r)
    \/ \E s \in Schemas : Propagate(s.func_schema, s)
    \/ Walk

Spec == Init /\ [][Next]_vars

\* an engine that serves one call of propagate, whose walk runs on to its
\* end: propagate and run_graph_prop are ordinary synchronous calls
NextLive ==
    \/ \E t \in Targets, r \in Rules : Register(t, r)
    \/ \E s \in Schemas : n_calls = 0 /\ Propagate(s.func_schema, s)
    \/ Walk

SpecLive == Init /\ [][NextLive]_vars /\ WF_vars(Walk)

\* an engine whose callers pass propagate any operator together with a
\* schema made for add
NextAnyOp ==
    \/ \E t \in Targets, r \in Rules : Register(t, r)
    \/ \E op \in Operators, s \in {x \in Schemas : x.func_schema = "add"} :
           Propagate(op, s)
    \/ Walk

SpecAnyOp == Init /\ [][NextAnyOp]_vars

\* an engine whose callers hand run_graph_prop a graph of their own
NextGraph ==
    \/ \E t \in Targets, r \in Rules : Register(t, r)
    \/ \E g \in DirectGraphs, flat \in SeqsUpTo(Entries, MaxFlat) : RunGraphProp(g, flat)
    \/ Walk

SpecGraph == Init /\ [][NextGraph]_vars

(***************************************************************************)
(* Properties                                                              *)
(***************************************************************************)
\* a call of propagate is over
PropagateOver == pc = "idle" /\ entry = "propagate"
PropagateReturned == PropagateOver /\ outcome.status = "returned"

\* what the rule registered for the operator of the current call answers when
\* invoked directly on the schema the caller passed
DirectRule == LookupRule(op_to_rules, call_arg.op)
Direct == RuleApply(DirectRule, call_arg.schema)
HasDirectRule ==
    PropagateOver /\ call_arg.op \in Targets /\ DirectRule # NoRule

\* an output spec, also when it comes as the one-element list the output
\* node's inputs are mapped to
IsSpec(v, spec) == v = spec \/ v = List(<<spec>>)

\* C1: when the operator has a registered rule and the rule resolves the
\* caller's schema on its first invocation, propagate returns the output
\* spec a direct invocation of the rule yields, and the caller's schema
\* as the only schema suggestion.
C1_ResolvedCase ==
    (HasDirectRule /\ Direct # RuleRaises /\ Direct.output_spec # Null)
        => /\ outcome.status = "returned"
           /\ IsSpec(outcome.value.output_spec, Direct.output_spec)
           /\ outcome.value.schema_suggestions = List(<<call_arg.schema>>)

\* the rule answers (null, [suggested], null) on the caller's schema and
\* (resolved, null, null) on the suggested one
RedistributesOnce ==
    /\ HasDirectRule
    /\ Direct # RuleRaises
    /\ Direct.output_spec = Null
    /\ Direct.schema_suggestions # Null
    /\ Len(Direct.schema_suggestions.items) = 1
    /\ Direct.failed_reason = Null
    /\ LET again == RuleApply(DirectRule, Direct.schema_suggestions.items[1])
       IN /\ again # RuleRaises
          /\ again.output_spec # Null
          /\ again.schema_suggestions = Null
          /\ again.failed_reason = Null

\* C2: when the rule suggests one schema for the caller's schema and
\* resolves the suggested schema, propagate returns the resolved spec of the
\* second invocation, the one suggestion, and no failure reason.
C2_Redistribution ==
    RedistributesOnce
        => /\ outcome.status = "returned"
           /\ IsSpec(outcome.value.output_spec,
                     RuleApply(DirectRule, Direct.schema_suggestions.items[1]).output_spec)
           /\ outcome.value.schema_suggestions = Direct.schema_suggestions
           /\ outcome.value.failed_reason = Null

\* C5: when the rule answers (null, null, null), propagate returns the
\* caller's schema as the only suggestion and no output spec.
C5_ScalarFallback ==
    (HasDirectRule /\ Direct # RuleRaises /\ ScalarFallback(Direct))
        => /\ outcome.status = "returned"
           /\ outcome.value.schema_suggestions = List(<<call_arg.schema>>)
           /\ outcome.value.output_spec \in {Null, List(<<>>), List(<<Null>>)}

\* the key the first result of the current call's arguments is remembered under
CallKey == <<call_arg.op, call_arg.schema>>

\* C3: on a caching propagator, a call of propagate whose arguments equal
\* those of a call that has returned is over at once, has invoked no rule and
\* built no trial graph, and returns what the first call returned.
C3_CacheCorrectness ==
    (caching /\ entry = "propagate" /\ repeated)
        => /\ pc = "idle"
           /\ rule_calls = <<>>
           /\ graphs_built = 0
           /\ outcome = Returned(first_returned[CallKey])

C3_Witness ==
    caching /\ repeated /\ PropagateReturned /\ n_calls = 2

\* the walk stopped on the unimplemented-rule error
UnimplementedRaised ==
    /\ pc = "idle"
    /\ outcome.status = "raised"
    /\ outcome.value.kind = "NotImplementedError"

\* the node the walk stands on is a computational node whose target has no rule
AtUnregistered ==
    /\ node_idx \in 1..Len(op_graph)
    /\ op_graph[node_idx].op = "call_function"
    /\ op_to_rules[op_graph[node_idx].target] = NoRule

\* C4 as stated: when propagate raises the unimplemented-rule error, the
\* error names the operator and no node of the trial graph carries sharding
\* metadata.
C4_NoGraphMutation ==
    UnimplementedRaised
        => /\ outcome.value.op = op_graph[node_idx].target
           /\ \A i \in 1..Len(op_graph) : op_graph[i].sharding = Null

\* C4 amended: the walk never passes a computational node whose target has
\* no rule; it stops there on the unimplemented-rule error naming that
\* target, having invoked no rule for it and attached no sharding metadata to
\* it or to any later node.  Metadata attached to earlier nodes stays.
C4_UnimplementedRule ==
    /\ \A i \in 1..Len(op_graph) :
          (i < node_idx /\ op_graph[i].op = "call_function")
              => op_to_rules[op_graph[i].target] # NoRule
    /\ AtUnregistered
          => /\ pc = "walk" \/ UnimplementedRaised
             /\ \A i \in node_idx..Len(op_graph) : op_graph[i].sharding = Null
             /\ \A k \in 1..Len(rule_calls) :
                   rule_calls[k].schema.func_schema # op_graph[node_idx].target
    /\ UnimplementedRaised
          => /\ AtUnregistered
             /\ outcome.value = Error("NotImplementedError",
                                      op_graph[node_idx].target, Null, Null)

C4_Witness ==
    /\ UnimplementedRaised
    /\ entry = "propagate"
    /\ \E i \in 1..Len(op_graph) : op_graph[i].sharding # Null

NumPlaceholders(g) == Cardinality({i \in 1..Len(g) : g[i].op = "placeholder"})

\* C6: a call whose flattened operand sequence and trial graph disagree on
\* the number of placeholders ends in an error.
C6_PlaceholderCount ==
    (pc = "idle" /\ n_calls > 0
        /\ Len(flat_args_sharding) # NumPlaceholders(op_graph))
        => outcome.status = "raised"

C9_RuleFailureWrapped ==
    (pc = "idle" /\ outcome.status = "raised"
        /\ \E k \in 1..Len(rule_calls) : rule_calls[k].result = RuleRaises)
        => /\ outcome.value.kind = "RuntimeError"
           /\ outcome.value.op = rule_calls[Len(rule_calls)].schema.func_schema
           /\ outcome.value.schema = rule_calls[Len(rule_calls)].schema
           /\ outcome.value.reason = Str("rule error")

\* C10: when a rule's first invocation on a node answers a null output
\* spec, null suggestions and a failure reason, that invocation is the last
\* one and the call is over with a propagation failure carrying the reason,
\* the operator and the input schema.
C10_ExplicitReason ==
    \A k \in 1..Len(rule_calls) :
        LET r == rule_calls[k].result
        IN (/\ ~rule_calls[k].retry
            /\ r # RuleRaises
            /\ r.output_spec = Null
            /\ r.schema_suggestions = Null
            /\ r.failed_reason # Null)
            => /\ k = Len(rule_calls)
               /\ pc = "idle"
               /\ outcome = Raised(Error("RuntimeError",
                                         rule_calls[k].schema.func_schema,
                                         rule_calls[k].schema, r.failed_reason))

C10_Witness ==
    /\ PropagateOver
    /\ outcome.status = "raised"
    /\ outcome.value.reason = Str("no rule applies")

\* C11: the registry associates with every operator exactly the rule of the
\* latest register call for it, and none with an operator never registered;
\* every rule invocation the per-node propagator made was of the rule
\* registered last for the node's operator, and the unimplemented-rule error
\* is raised only for an operator never registered.
C11_RegistryLastWins ==
    /\ \A t \in Targets :
          /\ op_to_rules[t] = last_registered[t]
          /\ op_to_rules[t] \in Rules \cup {NoRule}
    /\ \A k \in 1..Len(rule_calls) :
          LET s == rule_calls[k].schema
          IN /\ last_registered[s.func_schema] # NoRule
             /\ rule_calls[k].result = RuleApply(last_registered[s.func_schema], s)
    /\ (pc = "idle" /\ outcome.status = "raised"
            /\ outcome.value.kind = "NotImplementedError")
          => last_registered[outcome.value.op] = NoRule

\* a walk that invoked the rule registered for one operator and then found
\* none for the next
C11_Witness ==
    /\ pc = "idle"
    /\ outcome.status = "raised"
    /\ outcome.value.kind = "NotImplementedError"
    /\ rule_calls # <<>>
    /\ last_registered[rule_calls[1].schema.func_schema] \in Rules

\* the computational nodes of a graph, in walk order
CallNodes(g) ==
    SelectSeq([i \in 1..Len(g) |-> i], LAMBDA i : g[i].op = "call_function")

\* the node the k-th logged rule invocation was made for: every computational
\* node the walk ran the rule of accounts for one first invocation
NodeOfInvocation(k) ==
    CallNodes(op_graph)[Cardinality({j \in 1..k : ~rule_calls[j].retry})]

\* the k-th logged invocation is a first invocation that answered a null
\* output spec and a suggestions list
AsksRedistribution(k) ==
    /\ ~rule_calls[k].retry
    /\ rule_calls[k].result # RuleRaises
    /\ rule_calls[k].result.output_spec = Null
    /\ rule_calls[k].result.schema_suggestions # Null

\* C12: a first invocation that answers a null output spec and a non-empty
\* suggestions list is followed by exactly one re-invocation, made with the
\* first element of the list; unless that one raises, the node's record has
\* the second invocation's output spec and the original suggestions list;
\* no further invocation is made for the node, and no re-invocation is made
\* in any other case.
C12_RetryShape ==
    \A k \in 1..Len(rule_calls) :
        /\ AsksRedistribution(k)
              => LET first == rule_calls[k].result
                     node == op_graph[NodeOfInvocation(k)]
                 IN /\ k + 1 <= Len(rule_calls)
                    /\ rule_calls[k + 1].retry
                    /\ rule_calls[k + 1].schema = first.schema_suggestions.items[1]
                    /\ k + 2 <= Len(rule_calls) => ~rule_calls[k + 2].retry
                    /\ IF rule_calls[k + 1].result = RuleRaises
                       THEN k + 1 = Len(rule_calls) /\ pc = "idle"
                                /\ outcome.status = "raised"
                       ELSE /\ node.sharding.type = "OutputSharding"
                            /\ node.sharding.output_spec =
                                   rule_calls[k + 1].result.output_spec
                            /\ node.sharding.schema_suggestions =
                                   first.schema_suggestions
        /\ rule_calls[k].retry => k > 1 /\ AsksRedistribution(k - 1)

\* a call that returned after a rule offered two suggestions and did not
\* resolve the first one either
C12_Witness ==
    /\ PropagateReturned
    /\ \E k \in 1..Len(rule_calls) :
          /\ AsksRedistribution(k)
          /\ Len(rule_calls[k].result.schema_suggestions.items) = 2
          /\ rule_calls[k + 1].result.output_spec = Null

\* C13: the sharding metadata of a computational node the per-node
\* propagator has finished is an operand spec, and so is everything that
\* stands for a node in the schema built for a later computational node and
\* in the terminal output spec.
C13_NodeMetadataIsSpec ==
    /\ \A i \in 1..Len(op_graph) :
          (op_graph[i].op = "call_function" /\ op_graph[i].sharding # Null)
              => op_graph[i].sharding.type = "DTensorSpec"
    /\ \A k \in 1..Len(rule_calls) :
          \A j \in 1..Len(Flatten(rule_calls[k].schema)) :
              Flatten(rule_calls[k].schema)[j].type # "OutputSharding"
    /\ output_spec # Unbound
          => \A j \in 1..Len(output_spec.items) :
                 output_spec.items[j].type # "OutputSharding"

\* the object a node's sharding metadata holds
ShardingOf(g, flat, i) ==
    IF g[i].sharding.type = "ref" THEN flat[g[i].sharding.idx] ELSE g[i].sharding

\* what the nodes referenced by the output node of g carry
TerminalSpec(g, flat) ==
    LET out == CHOOSE i \in 1..Len(g) : g[i].op = "output"
    IN List([j \in 1..Len(g[out].args) |-> ShardingOf(g, flat, g[out].args[j].idx)])

\* C14: a returned result pairs the terminal output spec, read from the
\* nodes the output node references, with the schema suggestions of the last
\* computational node in walk order and no failure reason; no schema
\* suggested for an earlier computational node is among the returned
\* suggestions; a walk over a graph without a computational node does not
\* return a result.
C14_ResultAssembly ==
    LET calls == CallNodes(op_graph)
    IN /\ (pc = "idle" /\ outcome.status = "returned" /\ op_graph # <<>>)
             => /\ Len(calls) >= 1
                /\ outcome.value.output_spec = TerminalSpec(op_graph, flat_args_sharding)
                /\ outcome.value.schema_suggestions =
                       op_graph[calls[Len(calls)]].sharding.schema_suggestions
                /\ outcome.value.failed_reason = Null
                /\ \A c \in 1..(Len(calls) - 1) :
                       LET earlier == op_graph[calls[c]].sharding.schema_suggestions.items
                           given == outcome.value.schema_suggestions.items
                       IN \A x \in 1..Len(earlier), y \in 1..Len(given) :
                              earlier[x] # given[y]
       /\ (pc = "idle" /\ n_calls > 0 /\ op_graph # <<>> /\ Len(calls) = 0)
             => outcome.status = "raised"

\* a returned walk over two computational nodes whose suggestions differ
C14_Witness ==
    /\ pc = "idle"
    /\ outcome.status = "returned"
    /\ Len(CallNodes(op_graph)) = 2
    /\ op_graph[CallNodes(op_graph)[1]].sharding.schema_suggestions
           # outcome.value.schema_suggestions

\* the number of placeholder nodes among the first i nodes of g
PlaceholdersUpTo(g, i) ==
    Cardinality({j \in 1..i : j <= Len(g) /\ g[j].op = "placeholder"})

C16_InputsNotMutated ==
    entry = "propagate"
        => /\ CallerSchema = call_arg.schema
           /\ ~spec_written

\* C17: the record a rule returned on its first invocation for a node, which
\* is the object stored on that node, is as the rule returned it, except that
\* in the redistribution-retry outcome its output spec may have been filled
\* in.
C17_RuleResultFrame ==
    \A k \in 1..Len(rule_calls) :
        (~rule_calls[k].retry /\ rule_calls[k].result # RuleRaises
            /\ op_graph[NodeOfInvocation(k)].sharding # Null)
            => LET returned == rule_calls[k].result
                   now == op_graph[NodeOfInvocation(k)].sharding
               IN IF AsksRedistribution(k)
                  THEN [now EXCEPT !.output_spec = Null] = returned
                  ELSE now = returned

\* the rule invocations logged for the c-th computational node of the graph
InvocationsFor(c) ==
    Cardinality({k \in 1..Len(rule_calls) :
                    Cardinality({j \in 1..k : ~rule_calls[j].retry}) = c})

\* the walk is inside the graph, the rule of every computational node it has
\* passed was invoked once or twice, and no more than two invocations per
\* computational node were made in all
BoundedRuleCalls ==
    /\ node_idx <= Len(op_graph) + 1
    /\ \A c \in 1..Len(CallNodes(op_graph)) :
          /\ InvocationsFor(c) <= 2
          /\ CallNodes(op_graph)[c] < node_idx => InvocationsFor(c) >= 1
    /\ Len(rule_calls) <= 2 * Len(CallNodes(op_graph))

\* a step inside the walk moves on to the next node of the same graph
VisitsInOrder ==
    (pc = "walk" /\ pc' = "walk")
        => /\ node_idx' = node_idx + 1
           /\ Len(op_graph') = Len(op_graph)
           /\ \A i \in 1..Len(op_graph) : op_graph'[i].op = op_graph[i].op

\* C18: a call visits the nodes of its graph once each, in construction
\* order, invokes the rule of every computational node it passes once or
\* twice, so at most twice the number of computational nodes in all, and
\* ends by returning or raising.
C18_Termination ==
    /\ []BoundedRuleCalls
    /\ [][VisitsInOrder]_vars
    /\ (pc = "walk") ~> (pc = "idle" /\ outcome.status \in {"returned", "raised"})

\* a call returned after two invocations for the first of two computational
\* nodes and one for the second
C18_Witness ==
    /\ PropagateReturned
    /\ Len(CallNodes(op_graph)) = 2
    /\ Len(rule_calls) = 3

\* what a step may do to the cache: every entry stays as it is; the cache
\* changes only when a call of propagate on a caching engine that found its
\* schema absent returns, and then by the one entry of that schema, holding
\* the result returned; such a return always stores; a step that ends a call
\* in an error leaves the cache as it was
CacheStep ==
    /\ \A k \in DOMAIN cached_prop_results :
          /\ k \in DOMAIN cached_prop_results'
          /\ cached_prop_results'[k] = cached_prop_results[k]
    /\ cached_prop_results' # cached_prop_results
          => /\ caching
             /\ entry = "propagate"
             /\ pc = "walk"
             /\ outcome' = Returned(cached_prop_results'[call_arg.schema])
             /\ call_arg.schema \notin DOMAIN cached_prop_results
             /\ DOMAIN cached_prop_results' =
                    DOMAIN cached_prop_results \cup {call_arg.schema}
    /\ (caching /\ entry = "propagate" /\ pc = "walk" /\ outcome'.status = "returned")
          => cached_prop_results' # cached_prop_results
    /\ outcome'.status = "raised" => cached_prop_results' = cached_prop_results

\* the schema of a call that raised is not in the cache, and a call that did
\* not find its schema in the cache goes through the whole propagation: it
\* is walking a trial graph built for it, or it raised, or it has returned
\* what its walk produced
CacheMissRuns ==
    (caching /\ entry = "propagate")
        => /\ outcome.status = "raised"
                => call_arg.schema \notin DOMAIN cached_prop_results
           /\ pc = "walk" => graphs_built = 1

\* C19: on a caching propagator a call that raises leaves the cache
\* unchanged, so its schema stays absent and a later call with it propagates
\* in full; a returning miss adds exactly the entry of its schema; no entry
\* is ever overwritten or removed.
C19_CacheWriteOnce ==
    /\ []CacheMissRuns
    /\ [][CacheStep]_vars

\* a second call raised after walking a graph, while the entry of the first
\* call is still in the cache
C19_Witness ==
    /\ caching
    /\ PropagateOver
    /\ n_calls = 2
    /\ outcome.status = "raised"
    /\ graphs_built = 1
    /\ Cardinality(DOMAIN cached_prop_results) = 1

\* propagate had returned for the schema of the current call before, called
\* with the same operator or with another one
ReturnedBeforeFor(op) ==
    /\ <<op, call_arg.schema>> \in DOMAIN first_returned
    /\ op = call_arg.op => repeated

\* C20: on a caching propagator, a call of propagate with a schema equal to
\* one an earlier call returned for, whatever operator either call was
\* given, is over at once with the result of that earlier call: no trial
\* graph is built, no rule is looked up or invoked, and no error is raised,
\* also when the operator now given has no rule.
C20_HitIgnoresOperator ==
    \A op \in Operators :
        (caching /\ entry = "propagate" /\ ReturnedBeforeFor(op))
            => /\ pc = "idle"
               /\ outcome = Returned(first_returned[<<op, call_arg.schema>>])
               /\ call_arg.schema \in DOMAIN cached_prop_results
               /\ outcome.value = cached_prop_results[call_arg.schema]
               /\ graphs_built = 0
               /\ rule_calls = <<>>

\* a second call, given an operator that decomposes into one without a rule,
\* returned what a call with another operator had stored for the schema
C20_Witness ==
    /\ caching
    /\ PropagateReturned
    /\ n_calls = 2
    /\ call_arg.op = "addmul"
    /\ op_to_rules["mul"] = NoRule
    /\ <<"add", call_arg.schema>> \in DOMAIN first_returned

====

